---- MODULE Spec2Model ----
(***************************************************************************)
(* A model of the miniature filesystem of src/fs.c: a fixed-size disk      *)
(* image (superblock, block bitmap, inode table, data blocks), the         *)
(* process-global mount state (descriptor and cached superblock), and the  *)
(* public operations fs_format, fs_mount, fs_unmount, fs_create, fs_list,  *)
(* fs_write, fs_read and fs_delete.  The volume geometry is scaled down so *)
(* that full tables, full disks and maximum-size files are all reached.    *)
(***************************************************************************)
EXTENDS Integers, Sequences, FiniteSets

\* ---------------------------------------------------------------------
\* Volume geometry (scaled from 4096 / 2560 / 256 / 12 / 28)
\* ---------------------------------------------------------------------
BLOCK_SIZE == 2

MAX_BLOCKS == 12

MAX_FILES == 2

MAX_DIRECT_BLOCKS == 2

MAX_FILENAME == 2

\* blocks 0..9: superblock, bitmap, 8 blocks of inode table
METADATA_BLOCKS_COUNT == 10

\* the descriptor open() hands out for the image
OPEN_FD == 3

\* how far format on a mounted volume may push the cached free_inodes
\* below the number of unused slots
MaxInodeDebt == 1

MaxFileSize == MAX_DIRECT_BLOCKS * BLOCK_SIZE

BlockIdx == 0 .. (MAX_BLOCKS - 1)

DataBlockIdx == METADATA_BLOCKS_COUNT .. (MAX_BLOCKS - 1)

InodeIdx == 0 .. (MAX_FILES - 1)

\* ---------------------------------------------------------------------
\* Inputs of the callers
\* ---------------------------------------------------------------------
\* a name of k characters 'a','b','c',...
NameOfLen(k) == [i \in 1..k |-> 96 + i]

\* a second name of MAX_FILENAME-1 characters, all 'b'
OtherName == [i \in 1..(MAX_FILENAME - 1) |-> 98]

\* names of length MAX_FILENAME-1 (two of them), MAX_FILENAME and MAX_FILENAME+1
Names ==
    {NameOfLen(k) : k \in {MAX_FILENAME - 1, MAX_FILENAME, MAX_FILENAME + 1}}
        \cup {OtherName}

\* payload of s bytes: byte i depends on its position inside its block
Payload(c, s) == [i \in 1..s |-> 10 * c + ((i - 1) % BLOCK_SIZE)]

\* a partial block, a full block and a partial one, the maximum, one byte more
WriteSizes == {1, BLOCK_SIZE + 1, MaxFileSize, MaxFileSize + 1}

\* the buffers the callers write: the first pattern at every size, and a
\* second pattern of one byte, which replaces a content of the same length
Payloads == {Payload(1, s) : s \in WriteSizes} \cup {Payload(2, 1)}

\* a buffer shorter than any content, one of a block and a byte, one longer than any
ReadSizes == {1, BLOCK_SIZE + 1, MaxFileSize + 1}

ListSizes == 0 .. MAX_FILES

\* a name of MAX_FILENAME-1 characters, all of them the k-th letter
LetterName(k) == [i \in 1..(MAX_FILENAME - 1) |-> 96 + k]

\* one name more than the inode table has slots
CapacityNames == {LetterName(k) : k \in 1..(MAX_FILES + 1)}

\* ---------------------------------------------------------------------
\* State
\* ---------------------------------------------------------------------
VARIABLES
    disk_file_descriptor,   \* -1 when nothing is mounted
    current_superblock,     \* cached superblock
    disk_exists,            \* the image file exists
    disk_superblock,        \* block 0
    disk_bitmap,            \* block 1, one bit per block
    disk_inodes,            \* blocks 2..9, MAX_FILES slots
    disk_data               \* data blocks

vars == <<disk_file_descriptor, current_superblock, disk_exists, disk_superblock,
          disk_bitmap, disk_inodes, disk_data>>

ZeroSuperblock ==
    [total_blocks |-> 0, block_size |-> 0, free_blocks |-> 0,
     total_inodes |-> 0, free_inodes |-> 0]

ZeroInode ==
    [used |-> 0, name |-> <<>>, size |-> 0,
     blocks |-> [i \in 1..MAX_DIRECT_BLOCKS |-> 0]]

ZeroBlock == [i \in 1..BLOCK_SIZE |-> 0]

\* the whole state as one value, so that operations compose
State ==
    [fd |-> disk_file_descriptor, csb |-> current_superblock,
     exists |-> disk_exists, dsb |-> disk_superblock, bitmap |-> disk_bitmap,
     inodes |-> disk_inodes, data |-> disk_data]

Min(a, b) == IF a < b THEN a ELSE b

\* (x + BLOCK_SIZE - 1) / BLOCK_SIZE
BlocksFor(x) == (x + BLOCK_SIZE - 1) \div BLOCK_SIZE

\* strlen of a name
strlen(s) == Len(s)

\* strncpy(dst, src, n) into a zeroed field: the first n characters
strncpy(src, n) == SubSeq(src, 1, Min(Len(src), n))

\* the null pointer: no string, no payload and no buffer equals it
NULL == <<-1>>

\* a caller's array for fs_read to fill; what it held before is never read
Buffer == <<0>>

\* ---------------------------------------------------------------------
\* Helper functions of fs.c
\* ---------------------------------------------------------------------
CharAt(s, i) == IF i <= Len(s) THEN s[i] ELSE 0

RECURSIVE compare_from(_, _, _)
compare_from(str1, str2, i) ==
    IF CharAt(str1, i) # 0 /\ CharAt(str1, i) = CharAt(str2, i)
    THEN compare_from(str1, str2, i + 1)
    ELSE CharAt(str1, i) - CharAt(str2, i)

compare_strings(str1, str2) ==
    IF str1 = NULL \/ str2 = NULL THEN 0 ELSE compare_from(str1, str2, 1)

\* a lookup that takes the first used slot whatever its name
find_inode_from_firstUsed(st, i_name, i) ==
    LET used == {j \in InodeIdx : j >= i /\ st.inodes[j].used # 0}
    IN IF used = {} THEN -1 ELSE CHOOSE j \in used : \A k \in used : j <= k

RECURSIVE find_inode_from(_, _, _)
find_inode_from(st, i_name, i) ==
    IF i >= MAX_FILES THEN -1
    ELSE IF st.inodes[i].used # 0 /\ compare_strings(st.inodes[i].name, i_name) = 0
         THEN i
         ELSE find_inode_from(st, i_name, i + 1)

find_inode_by_name(st, i_name) ==
    IF st.fd < 0 THEN -1 ELSE find_inode_from(st, i_name, 0)

\* a search that does not test the used flag
find_free_inode_from_firstSlot(st, i) ==
    IF i >= MAX_FILES THEN -1 ELSE i

RECURSIVE find_free_inode_from(_, _)
find_free_inode_from(st, i) ==
    IF i >= MAX_FILES THEN -1
    ELSE IF st.inodes[i].used = 0 THEN i
         ELSE find_free_inode_from(st, i + 1)

\* a search that returns the highest unused slot
find_free_inode_highest(st) ==
    IF st.fd < 0 \/ \A i \in InodeIdx : st.inodes[i].used # 0 THEN -1
    ELSE CHOOSE i \in InodeIdx :
            /\ st.inodes[i].used = 0
            /\ \A j \in InodeIdx : st.inodes[j].used = 0 => j <= i

find_free_inode(st) ==
    IF st.fd < 0 THEN -1 ELSE find_free_inode_from(st, 0)

validate_block_number_and_filesystem(st, i_block_num) ==
    IF st.fd < 0 \/ i_block_num < 0 \/ i_block_num >= MAX_BLOCKS THEN -1 ELSE 0

\* a search that does not test the bit
find_free_block_from_ignoresBitmap(st, block_index) ==
    IF block_index >= MAX_BLOCKS THEN -1 ELSE block_index

RECURSIVE find_free_block_from(_, _)
find_free_block_from(st, block_index) ==
    IF block_index >= MAX_BLOCKS THEN -1
    ELSE IF st.bitmap[block_index] = 0 THEN block_index
         ELSE find_free_block_from(st, block_index + 1)

\* a search that starts one block too far
find_free_block_skipsFirst(st) ==
    IF validate_block_number_and_filesystem(st, 0) # 0 THEN -1
    ELSE find_free_block_from(st, METADATA_BLOCKS_COUNT + 1)

find_free_block(st) ==
    IF validate_block_number_and_filesystem(st, 0) # 0 THEN -1
    ELSE find_free_block_from(st, METADATA_BLOCKS_COUNT)

\* a mark that never reaches the bitmap
mark_block_as_used_noop(st, block_index) == st

mark_block_as_used(st, block_index) ==
    IF validate_block_number_and_filesystem(st, block_index) # 0 THEN st
    ELSE [st EXCEPT !.bitmap[block_index] = 1]

\* a release that leaves the bitmap bit set
mark_block_as_free_noop(st, block_index) == st

mark_block_as_free(st, block_index) ==
    IF validate_block_number_and_filesystem(st, block_index) # 0 THEN st
    ELSE [st EXCEPT !.bitmap[block_index] = 0]

\* an inode write that also writes the cached superblock to block 0
write_inode_to_disk_flushesSuperblock(st, inode_index, i_node) ==
    IF st.fd < 0 \/ inode_index < 0 \/ inode_index >= MAX_FILES THEN st
    ELSE [st EXCEPT !.inodes[inode_index] = i_node, !.dsb = st.csb]

write_inode_to_disk(st, inode_index, i_node) ==
    IF st.fd < 0 \/ inode_index < 0 \/ inode_index >= MAX_FILES THEN st
    ELSE [st EXCEPT !.inodes[inode_index] = i_node]

read_inode_from_disk(st, i_inode_index) == st.inodes[i_inode_index]

\* a size limit that also turns away exactly MAX_DIRECT_BLOCKS * BLOCK_SIZE
validate_write_operation_parameters_rejectsMax(st, filename, data, size) ==
    IF st.fd < 0 THEN -3
    ELSE IF filename = NULL \/ data = NULL \/ size <= 0 \/ strlen(filename) = 0
              \/ strlen(filename) > MAX_FILENAME THEN -3
    ELSE IF size >= MAX_DIRECT_BLOCKS * BLOCK_SIZE THEN -2
    ELSE 0

validate_write_operation_parameters(st, filename, data, size) ==
    IF st.fd < 0 THEN -3
    ELSE IF filename = NULL \/ data = NULL \/ size <= 0 \/ strlen(filename) = 0
              \/ strlen(filename) > MAX_FILENAME THEN -3
    ELSE IF size > MAX_DIRECT_BLOCKS * BLOCK_SIZE THEN -2
    ELSE 0

\* a space check that lets every request through
check_available_space_for_write_operation_always(st, blocks_needed, current_file_size) == 0

check_available_space_for_write_operation(st, blocks_needed, current_file_size) ==
    IF blocks_needed > st.csb.free_blocks + BlocksFor(current_file_size) THEN -2 ELSE 0

\* a release that forgets current_superblock.free_blocks++
FreeOneBlock_noCount(w, i) ==
    IF w.inode.blocks[i + 1] # 0 /\ w.inode.blocks[i + 1] < MAX_BLOCKS
    THEN [st |-> mark_block_as_free(w.st, w.inode.blocks[i + 1]),
          inode |-> [w.inode EXCEPT !.blocks[i + 1] = 0]]
    ELSE w

\* one iteration of the release loop: the state and the inode after it
FreeOneBlock(w, i) ==
    IF w.inode.blocks[i + 1] # 0 /\ w.inode.blocks[i + 1] < MAX_BLOCKS
    THEN [st |-> [mark_block_as_free(w.st, w.inode.blocks[i + 1])
                    EXCEPT !.csb.free_blocks = @ + 1],
          inode |-> [w.inode EXCEPT !.blocks[i + 1] = 0]]
    ELSE w

RECURSIVE free_blocks_from(_, _, _)
free_blocks_from(w, i, old_blocks_count) ==
    IF i >= old_blocks_count THEN w
    ELSE free_blocks_from(FreeOneBlock(w, i), i + 1, old_blocks_count)

\* a release loop over all MAX_DIRECT_BLOCKS entries without the test for 0
RECURSIVE free_every_entry_from(_, _)
free_every_entry_from(w, i) ==
    IF i >= MAX_DIRECT_BLOCKS THEN w
    ELSE free_every_entry_from(
           [st |-> [mark_block_as_free(w.st, w.inode.blocks[i + 1])
                      EXCEPT !.csb.free_blocks = @ + 1],
            inode |-> [w.inode EXCEPT !.blocks[i + 1] = 0]],
           i + 1)

free_file_existing_blocks_everyEntry(st, file_inode) ==
    free_every_entry_from([st |-> st, inode |-> file_inode], 0)

\* returns the state and the caller's inode copy (the return value is 0)
free_file_existing_blocks(st, file_inode) ==
    free_blocks_from([st |-> st, inode |-> file_inode], 0, BlocksFor(file_inode.size))

\* the rollback loop of a failed allocation
RECURSIVE rollback_from(_, _, _)
rollback_from(w, rollback_iterator, block_iterator) ==
    IF rollback_iterator >= block_iterator THEN w
    ELSE rollback_from(
           [st |-> [mark_block_as_free(w.st, w.inode.blocks[rollback_iterator + 1])
                      EXCEPT !.csb.free_blocks = @ + 1],
            inode |-> [w.inode EXCEPT !.blocks[rollback_iterator + 1] = 0]],
           rollback_iterator + 1, block_iterator)

\* an allocation that forgets current_superblock.free_blocks--
TakeBlock_noCount(w, block_iterator, new_block_number) ==
    [st |-> mark_block_as_used(w.st, new_block_number),
     inode |-> [w.inode EXCEPT !.blocks[block_iterator + 1] = new_block_number]]

\* one successful allocation: mark the block, record it, count it
TakeBlock(w, block_iterator, new_block_number) ==
    [st |-> [mark_block_as_used(w.st, new_block_number)
               EXCEPT !.csb.free_blocks = @ - 1],
     inode |-> [w.inode EXCEPT !.blocks[block_iterator + 1] = new_block_number]]

RECURSIVE allocate_from(_, _, _)
allocate_from(w, block_iterator, blocks_needed) ==
    IF block_iterator >= blocks_needed
    THEN [st |-> w.st, inode |-> w.inode, ret |-> 0]
    ELSE
      LET new_block_number == find_free_block(w.st)
          rolled_back == rollback_from(w, 0, block_iterator)
      IN IF new_block_number < 0
         THEN [st |-> rolled_back.st, inode |-> rolled_back.inode, ret |-> -2]
         ELSE allocate_from(TakeBlock(w, block_iterator, new_block_number),
                            block_iterator + 1, blocks_needed)

allocate_blocks_for_file(st, file_inode, blocks_needed) ==
    IF blocks_needed <= 0 THEN [st |-> st, inode |-> file_inode, ret |-> -3]
    ELSE allocate_from([st |-> st, inode |-> file_inode], 0, blocks_needed)

\* block_buffer: zero-filled, then the payload bytes of this block
BlockBuffer(data, bytes_written, bytes_to_write_in_this_block) ==
    [i \in 1..BLOCK_SIZE |->
        IF i <= bytes_to_write_in_this_block THEN data[bytes_written + i] ELSE 0]

RECURSIVE write_data_from(_, _, _, _, _, _)
write_data_from(st, file_inode, data, size, blocks_needed, block_iterator) ==
    IF block_iterator >= blocks_needed THEN st
    ELSE write_data_from(
           [st EXCEPT !.data[file_inode.blocks[block_iterator + 1]] =
               BlockBuffer(data, block_iterator * BLOCK_SIZE,
                           Min(BLOCK_SIZE, size - block_iterator * BLOCK_SIZE))],
           file_inode, data, size, blocks_needed, block_iterator + 1)

\* returns the state (the return value is 0 when no I/O fails)
write_data_to_allocated_blocks(st, file_inode, data, size, blocks_needed) ==
    write_data_from(st, file_inode, data, size, blocks_needed, 0)

\* ---------------------------------------------------------------------
\* Public operations: each maps a state (and arguments) to the state after
\* the call, the return value and the bytes or names handed back
\* ---------------------------------------------------------------------
FormatSuperblock ==
    [total_blocks |-> MAX_BLOCKS, block_size |-> BLOCK_SIZE,
     free_blocks |-> MAX_BLOCKS - 10,
     total_inodes |-> MAX_FILES, free_inodes |-> MAX_FILES]

\* a bitmap that leaves the metadata blocks free
FormatBitmap_allClear == [block_index \in BlockIdx |-> 0]

FormatBitmap ==
    [block_index \in BlockIdx |-> IF block_index < METADATA_BLOCKS_COUNT THEN 1 ELSE 0]

\* a format that also reloads the cached superblock of a mounted volume
fs_format_reloadsCache(st) ==
    [st |-> [st EXCEPT !.exists = TRUE,
                       !.data = [b \in DataBlockIdx |-> ZeroBlock],
                       !.dsb = FormatSuperblock,
                       !.csb = IF st.fd >= 0 THEN FormatSuperblock ELSE @,
                       !.bitmap = FormatBitmap,
                       !.inodes = [inode_index \in InodeIdx |-> ZeroInode]],
     ret |-> 0]

\* open(O_CREAT | O_TRUNC) always succeeds here; the mount state is not consulted
fs_format(st) ==
    [st |-> [st EXCEPT !.exists = TRUE,
                       !.data = [b \in DataBlockIdx |-> ZeroBlock],
                       !.dsb = FormatSuperblock,
                       !.bitmap = FormatBitmap,
                       !.inodes = [inode_index \in InodeIdx |-> ZeroInode]],
     ret |-> 0]

\* a check that forgets total_inodes
SuperblockValid_skipsInodes(sb) ==
    ~(sb.total_blocks # MAX_BLOCKS \/ sb.block_size # BLOCK_SIZE)

SuperblockValid(sb) ==
    ~(sb.total_blocks # MAX_BLOCKS \/ sb.block_size # BLOCK_SIZE
        \/ sb.total_inodes # MAX_FILES)

\* a mount that does not look at disk_file_descriptor first
fs_mount_again(st) ==
    IF ~st.exists THEN [st |-> [st EXCEPT !.fd = -1], ret |-> -1]
    ELSE IF ~SuperblockValid(st.dsb)
         THEN [st |-> [st EXCEPT !.csb = st.dsb, !.fd = -1], ret |-> -1]
         ELSE [st |-> [st EXCEPT !.csb = st.dsb, !.fd = OPEN_FD], ret |-> 0]

fs_mount(st) ==
    IF st.fd >= 0 THEN [st |-> st, ret |-> -1]
    ELSE IF ~st.exists THEN [st |-> [st EXCEPT !.fd = -1], ret |-> -1]
    ELSE IF ~SuperblockValid(st.dsb)
         THEN [st |-> [st EXCEPT !.csb = st.dsb, !.fd = -1], ret |-> -1]
         ELSE [st |-> [st EXCEPT !.csb = st.dsb, !.fd = OPEN_FD], ret |-> 0]

\* a flush that seeks to the inode table instead of block 0: the superblock's
\* first fields land on slot 0
FlushSuperblock_wrongOffset(st) ==
    [st EXCEPT !.inodes[0].used = st.csb.total_blocks,
               !.inodes[0].name = <<st.csb.block_size>>]

\* lseek(0) and write of the cached superblock
FlushSuperblock(st) == [st EXCEPT !.dsb = st.csb]

\* an unmount that writes block 0 and keeps the descriptor
fs_unmount_keepsDescriptor(st) ==
    IF st.fd < 0 THEN [st |-> st, ret |-> 0]
    ELSE [st |-> FlushSuperblock(st), ret |-> 0]

fs_unmount(st) ==
    IF st.fd < 0 THEN [st |-> st, ret |-> 0]
    ELSE [st |-> [FlushSuperblock(st) EXCEPT !.fd = -1], ret |-> 0]

\* a create that forgets the counter
InodeTaken_noCount(csb) == csb

\* current_superblock.free_inodes--
InodeTaken(csb) == [csb EXCEPT !.free_inodes = @ - 1]

\* current_superblock.free_inodes++
InodeReleased(csb) == [csb EXCEPT !.free_inodes = @ + 1]

NewInode(filename) ==
    [ZeroInode EXCEPT !.name = strncpy(filename, MAX_FILENAME - 1), !.used = 1]

\* a create that turns away names of exactly MAX_FILENAME characters
fs_create_rejectsBoundary(st, filename) ==
    IF st.fd < 0 THEN [st |-> st, ret |-> -3]
    ELSE IF filename = NULL \/ strlen(filename) = 0 \/ strlen(filename) >= MAX_FILENAME
         THEN [st |-> st, ret |-> -3]
    ELSE IF find_inode_by_name(st, filename) >= 0 THEN [st |-> st, ret |-> -1]
    ELSE
      LET free_inode_index == find_free_inode(st)
      IN IF free_inode_index < 0 THEN [st |-> st, ret |-> -2]
         ELSE [st |-> [write_inode_to_disk(st, free_inode_index, NewInode(filename))
                         EXCEPT !.csb = InodeTaken(@)],
               ret |-> 0]

fs_create(st, filename) ==
    IF st.fd < 0 THEN [st |-> st, ret |-> -3]
    ELSE IF filename = NULL \/ strlen(filename) = 0 \/ strlen(filename) > MAX_FILENAME
         THEN [st |-> st, ret |-> -3]
    ELSE IF find_inode_by_name(st, filename) >= 0 THEN [st |-> st, ret |-> -1]
    ELSE
      LET free_inode_index == find_free_inode(st)
      IN IF free_inode_index < 0 THEN [st |-> st, ret |-> -2]
         ELSE [st |-> [write_inode_to_disk(st, free_inode_index, NewInode(filename))
                         EXCEPT !.csb = InodeTaken(@)],
               ret |-> 0]

\* a copy that stops one character early
ListedName_short(name) == strncpy(name, MAX_FILENAME - 2)

\* the name copied into the caller's array: strncpy of MAX_FILENAME bytes,
\* then a terminator at MAX_FILENAME - 1
ListedName(name) == strncpy(strncpy(name, MAX_FILENAME), MAX_FILENAME - 1)

RECURSIVE list_from(_, _, _, _)
list_from(st, max_files, i, filenames) ==
    IF ~(i < MAX_FILES /\ Len(filenames) < max_files) THEN filenames
    ELSE IF st.inodes[i].used # 0
         THEN list_from(st, max_files, i + 1,
                        Append(filenames, ListedName(st.inodes[i].name)))
         ELSE list_from(st, max_files, i + 1, filenames)

fs_list(st, max_files) ==
    IF st.fd < 0 THEN [ret |-> -1, out |-> <<>>]
    ELSE LET filenames == list_from(st, max_files, 0, <<>>)
         IN [ret |-> Len(filenames), out |-> filenames]

\* a write that forgets to record the new size
WrittenInode_keepsSize(file_inode, size) == file_inode

\* the inode fs_write leaves in the table after a successful write
WrittenInode(file_inode, size) == [file_inode EXCEPT !.size = size]

\* a write that looks the name up before it checks the size
fs_write_lookupFirst(st, filename, data, size) ==
    LET isValidInput == validate_write_operation_parameters(st, filename, data, size)
        inode_index == find_inode_by_name(st, filename)
    IN
    IF isValidInput = -3 THEN [st |-> st, ret |-> -3]
    ELSE IF inode_index < 0 THEN [st |-> st, ret |-> -1]
    ELSE IF isValidInput # 0 THEN [st |-> st, ret |-> isValidInput]
    ELSE
      LET current_file_inode == read_inode_from_disk(st, inode_index)
          blocks_needed == BlocksFor(size)
          free_space_check ==
              check_available_space_for_write_operation(st, blocks_needed,
                                                        current_file_inode.size)
          freed == free_file_existing_blocks(st, current_file_inode)
          allocated == allocate_blocks_for_file(freed.st, freed.inode, blocks_needed)
          written == write_data_to_allocated_blocks(allocated.st, allocated.inode,
                                                    data, size, blocks_needed)
      IN IF free_space_check < 0 THEN [st |-> st, ret |-> free_space_check]
         ELSE IF allocated.ret < 0 THEN [st |-> allocated.st, ret |-> allocated.ret]
         ELSE [st |-> write_inode_to_disk(written, inode_index,
                                          WrittenInode(allocated.inode, size)),
               ret |-> 0]

\* a write that takes the new blocks before it releases the old ones
fs_write_allocatesFirst(st, filename, data, size) ==
    LET isValidInput == validate_write_operation_parameters(st, filename, data, size)
        inode_index == find_inode_by_name(st, filename)
    IN
    IF isValidInput # 0 THEN [st |-> st, ret |-> isValidInput]
    ELSE IF inode_index < 0 THEN [st |-> st, ret |-> -1]
    ELSE
      LET current_file_inode == read_inode_from_disk(st, inode_index)
          blocks_needed == BlocksFor(size)
          free_space_check ==
              check_available_space_for_write_operation(st, blocks_needed,
                                                        current_file_inode.size)
          allocated == allocate_blocks_for_file(st, current_file_inode, blocks_needed)
          freed == free_file_existing_blocks(allocated.st, current_file_inode)
          written == write_data_to_allocated_blocks(freed.st, allocated.inode,
                                                    data, size, blocks_needed)
      IN IF free_space_check < 0 THEN [st |-> st, ret |-> free_space_check]
         ELSE IF allocated.ret < 0 THEN [st |-> allocated.st, ret |-> allocated.ret]
         ELSE [st |-> write_inode_to_disk(written, inode_index,
                                          WrittenInode(allocated.inode, size)),
               ret |-> 0]

fs_write(st, filename, data, size) ==
    LET isValidInput == validate_write_operation_parameters(st, filename, data, size)
        inode_index == find_inode_by_name(st, filename)
    IN
    IF isValidInput # 0 THEN [st |-> st, ret |-> isValidInput]
    ELSE IF inode_index < 0 THEN [st |-> st, ret |-> -1]
    ELSE
      LET current_file_inode == read_inode_from_disk(st, inode_index)
          blocks_needed == BlocksFor(size)
          free_space_check ==
              check_available_space_for_write_operation(st, blocks_needed,
                                                        current_file_inode.size)
          freed == free_file_existing_blocks(st, current_file_inode)
          allocated == allocate_blocks_for_file(freed.st, freed.inode, blocks_needed)
          written == write_data_to_allocated_blocks(allocated.st, allocated.inode,
                                                    data, size, blocks_needed)
      IN IF free_space_check < 0 THEN [st |-> st, ret |-> free_space_check]
         ELSE IF allocated.ret < 0 THEN [st |-> allocated.st, ret |-> allocated.ret]
         ELSE [st |-> write_inode_to_disk(written, inode_index,
                                          WrittenInode(allocated.inode, size)),
               ret |-> 0]

\* a read that trusts the caller's size
BytesToRead_ignoresFileSize(size, file_size) == size

BytesToRead(size, file_size) == IF size < file_size THEN size ELSE file_size

\* a copy that takes the whole block, padding included
BytesFromBlock_wholeBlock(block, bytes_from_this_block) == block

\* the bytes memcpy takes from one block
BytesFromBlock(block, bytes_from_this_block) == SubSeq(block, 1, bytes_from_this_block)

RECURSIVE read_from(_, _, _, _, _, _)
read_from(st, file_inode, bytes_to_read, blocks_to_read, i, read_buffer) ==
    IF i >= blocks_to_read THEN [ret |-> Len(read_buffer), out |-> read_buffer]
    ELSE IF file_inode.blocks[i + 1] < 10 \/ file_inode.blocks[i + 1] >= MAX_BLOCKS
         THEN [ret |-> -3, out |-> read_buffer]
         ELSE read_from(st, file_inode, bytes_to_read, blocks_to_read, i + 1,
                        read_buffer \o
                          BytesFromBlock(st.data[file_inode.blocks[i + 1]],
                                         Min(BLOCK_SIZE, bytes_to_read - Len(read_buffer))))

\* a read that looks at its arguments before the mount state
fs_read_argumentsFirst(st, filename, buffer, size) ==
    IF filename = NULL \/ buffer = NULL \/ size <= 0 \/ strlen(filename) = 0
         \/ strlen(filename) > MAX_FILENAME
    THEN [ret |-> -3, out |-> <<>>]
    ELSE IF st.fd < 0 THEN [ret |-> -1, out |-> <<>>]
    ELSE
      LET inode_index == find_inode_by_name(st, filename)
          current_file_inode == read_inode_from_disk(st, inode_index)
          bytes_to_read == BytesToRead(size, current_file_inode.size)
      IN IF inode_index < 0 THEN [ret |-> -1, out |-> <<>>]
         ELSE IF bytes_to_read = 0 THEN [ret |-> 0, out |-> <<>>]
         ELSE read_from(st, current_file_inode, bytes_to_read,
                        BlocksFor(bytes_to_read), 0, <<>>)

fs_read(st, filename, buffer, size) ==
    IF st.fd < 0 THEN [ret |-> -1, out |-> <<>>]
    ELSE IF filename = NULL \/ buffer = NULL \/ size <= 0 \/ strlen(filename) = 0
              \/ strlen(filename) > MAX_FILENAME
         THEN [ret |-> -3, out |-> <<>>]
    ELSE
      LET inode_index == find_inode_by_name(st, filename)
          current_file_inode == read_inode_from_disk(st, inode_index)
          bytes_to_read == BytesToRead(size, current_file_inode.size)
      IN IF inode_index < 0 THEN [ret |-> -1, out |-> <<>>]
         ELSE IF bytes_to_read = 0 THEN [ret |-> 0, out |-> <<>>]
         ELSE read_from(st, current_file_inode, bytes_to_read,
                        BlocksFor(bytes_to_read), 0, <<>>)

\* a delete that answers an invalid name with the code of create and write
fs_delete_invalidArgument(st, filename) ==
    IF st.fd < 0 THEN [st |-> st, ret |-> -2]
    ELSE IF filename = NULL \/ strlen(filename) = 0 \/ strlen(filename) > MAX_FILENAME
         THEN [st |-> st, ret |-> -3]
    ELSE
      LET inode_index == find_inode_by_name(st, filename)
          freed == free_file_existing_blocks(st, read_inode_from_disk(st, inode_index))
      IN IF inode_index < 0 THEN [st |-> st, ret |-> -1]
         ELSE [st |-> [write_inode_to_disk(freed.st, inode_index, ZeroInode)
                         EXCEPT !.csb = InodeReleased(@)],
               ret |-> 0]

fs_delete(st, filename) ==
    IF st.fd < 0 THEN [st |-> st, ret |-> -2]
    ELSE IF filename = NULL \/ strlen(filename) = 0 \/ strlen(filename) > MAX_FILENAME
         THEN [st |-> st, ret |-> -2]
    ELSE
      LET inode_index == find_inode_by_name(st, filename)
          freed == free_file_existing_blocks(st, read_inode_from_disk(st, inode_index))
      IN IF inode_index < 0 THEN [st |-> st, ret |-> -1]
         ELSE [st |-> [write_inode_to_disk(freed.st, inode_index, ZeroInode)
                         EXCEPT !.csb = InodeReleased(@)],
               ret |-> 0]

\* ---------------------------------------------------------------------
\* The state machine
\* ---------------------------------------------------------------------
SetState(st) ==
    /\ disk_file_descriptor' = st.fd
    /\ current_superblock' = st.csb
    /\ disk_exists' = st.exists
    /\ disk_superblock' = st.dsb
    /\ disk_bitmap' = st.bitmap
    /\ disk_inodes' = st.inodes
    /\ disk_data' = st.data

\* the process has started and no image has been made yet
StartState ==
    [fd |-> -1, csb |-> ZeroSuperblock, exists |-> FALSE, dsb |-> ZeroSuperblock,
     bitmap |-> [b \in BlockIdx |-> 0],
     inodes |-> [i \in InodeIdx |-> ZeroInode],
     data |-> [b \in DataBlockIdx |-> ZeroBlock]]

InitFrom(st) ==
    /\ disk_file_descriptor = st.fd
    /\ current_superblock = st.csb
    /\ disk_exists = st.exists
    /\ disk_superblock = st.dsb
    /\ disk_bitmap = st.bitmap
    /\ disk_inodes = st.inodes
    /\ disk_data = st.data

Init == InitFrom(StartState)

\* a freshly formatted image, mounted
InitMounted == InitFrom(fs_mount(fs_format(StartState).st).st)

\* format on a mounted volume leaves the cached counters behind the image;
\* MaxInodeDebt caps how far
Format ==
    /\ disk_file_descriptor < 0
         \/ current_superblock.free_inodes + MaxInodeDebt >= MAX_FILES
    /\ LET r == fs_format(State)
       IN r.ret \in {0, -1} /\ SetState(r.st)

Mount ==
    LET r == fs_mount(State)
    IN r.ret \in {0, -1} /\ SetState(r.st)

Unmount == SetState(fs_unmount(State).st)

Create ==
    \E filename \in Names :
        LET r == fs_create(State, filename)
        IN r.ret \in {0, -1, -2, -3} /\ SetState(r.st)

\* list and read hand back a count and names or bytes and change nothing
List ==
    \E max_files \in ListSizes :
        /\ fs_list(State, max_files).ret \in -1 .. max_files
        /\ UNCHANGED vars

Write ==
    \E filename \in Names, data \in Payloads :
        LET r == fs_write(State, filename, data, Len(data))
        IN r.ret \in {0, -1, -2, -3} /\ SetState(r.st)

Read ==
    \E filename \in Names, size \in ReadSizes :
        /\ fs_read(State, filename, Buffer, size).ret \in -3 .. size
        /\ UNCHANGED vars

Delete ==
    \E filename \in Names :
        LET r == fs_delete(State, filename)
        IN r.ret \in {0, -1, -2} /\ SetState(r.st)

Next ==
    \/ Format
    \/ Mount
    \/ Unmount
    \/ Create
    \/ List
    \/ Write
    \/ Read
    \/ Delete

\* every public operation, from a process that has made no image yet
Spec == Init /\ [][Next]_vars

NextOps ==
    \/ Mount
    \/ Unmount
    \/ Create
    \/ List
    \/ Write
    \/ Read
    \/ Delete

\* every operation but format, from a freshly formatted and mounted image
SpecMounted == InitMounted /\ [][NextOps]_vars

\* a restart that also loses the inode table, as if inode writes were held
\* in the process until fs_unmount
process_restart_losesInodes(st) ==
    [st EXCEPT !.fd = -1, !.csb = ZeroSuperblock,
               !.inodes = [i \in InodeIdx |-> ZeroInode]]

\* the process ends without fs_unmount and a new one starts: the static
\* variables take their initial values and the image stays as it is
process_restart(st) == [st EXCEPT !.fd = -1, !.csb = ZeroSuperblock]

Crash ==
    /\ disk_file_descriptor >= 0
    /\ SetState(process_restart(State))

\* the cached counters are within the ranges a format gives them: stale
\* counters read after a restart can otherwise be driven without limit
CountersInRange ==
    /\ current_superblock.free_blocks \in 0 .. (MAX_BLOCKS - METADATA_BLOCKS_COUNT)
    /\ current_superblock.free_inodes \in 0 .. MAX_FILES

NextCrash ==
    \/ Mount
    \/ Unmount
    \/ Create /\ CountersInRange'
    \/ List
    \/ Write /\ CountersInRange'
    \/ Read
    \/ Delete /\ CountersInRange'
    \/ Crash

\* every operation but format, and processes that end without fs_unmount,
\* from a freshly formatted and mounted image
SpecCrash == InitMounted /\ [][NextCrash]_vars

\* ---------------------------------------------------------------------
\* What a caller can observe through list and read
\* ---------------------------------------------------------------------
ListAll(st) == fs_list(st, MAX_FILES)

ReadAll(st) == [n \in Names |-> [s \in ReadSizes |-> fs_read(st, n, Buffer, s)]]

Observed(st) == [list |-> ListAll(st), read |-> ReadAll(st)]

UsedInodes == {i \in InodeIdx : disk_inodes[i].used # 0}

\* an unallocated data block still holds bytes of an earlier content
StaleBlock(b) == disk_bitmap[b] = 0 /\ disk_data[b] # ZeroBlock

\* ---------------------------------------------------------------------
\* Properties
\* ---------------------------------------------------------------------

\* C1: whenever write(n, D, |D|) returns 0, a read of n with a buffer of at
\* least |D| bytes returns |D| and exactly the bytes of D, whatever n held
\* before.
C1_WriteReadRoundTrip ==
    \A n \in Names, D \in Payloads :
        LET w == fs_write(State, n, D, Len(D))
        IN w.ret = 0 =>
             \A s2 \in {Len(D)} \cup {r \in ReadSizes : r >= Len(D)} :
                 fs_read(w.st, n, Buffer, s2) = [ret |-> Len(D), out |-> D]

\* a file holds one byte while a released block still holds older bytes
C1_Witness ==
    /\ disk_file_descriptor >= 0
    /\ \E i \in UsedInodes :
          /\ disk_inodes[i].size = 1
          /\ fs_read(State, disk_inodes[i].name, Buffer, MaxFileSize + 1).ret = 1
    /\ \E b \in DataBlockIdx : StaleBlock(b)

\* C2: unmount followed by mount of the same image succeeds and list and
\* read give the same results as before the unmount (names, order, lengths,
\* bytes; absent files stay absent).
C2_Persistence ==
    disk_file_descriptor >= 0 =>
        LET r == fs_mount(fs_unmount(State).st)
        IN r.ret = 0 /\ Observed(r.st) = Observed(State)

\* mounted from a superblock that an unmount wrote (fewer free inodes than
\* format leaves), on an image with a file with content and a released block
C2_Witness ==
    /\ disk_file_descriptor >= 0
    /\ disk_superblock = current_superblock
    /\ disk_superblock.free_inodes < MAX_FILES
    /\ \E i \in UsedInodes : disk_inodes[i].size > 0
    /\ \E b \in DataBlockIdx : StaleBlock(b)

ClearDataBits == {b \in DataBlockIdx : disk_bitmap[b] = 0}

SetDataBits == {b \in DataBlockIdx : disk_bitmap[b] # 0}

\* C3: the cached free_blocks equals the number of clear bitmap bits at
\* indices >= METADATA_BLOCKS.
C3_FreeBlocksCountClearBits ==
    current_superblock.free_blocks = Cardinality(ClearDataBits)

\* blocks have been released while a file still holds some
C3_Witness ==
    /\ \E b \in DataBlockIdx : StaleBlock(b)
    /\ SetDataBits # {}
    /\ current_superblock.free_blocks > 0

\* the (slot, position) pairs of the block lists of used inodes
UsedEntries ==
    {e \in UsedInodes \X (1 .. MAX_DIRECT_BLOCKS) : disk_inodes[e[1]].blocks[e[2]] # 0}

EntryBlock(e) == disk_inodes[e[1]].blocks[e[2]]

\* C4: no block index appears in the block lists of two different used
\* inodes, nor twice in the block list of one used inode.
C4_NoSharedBlock ==
    \A e1 \in UsedEntries, e2 \in UsedEntries :
        e1 # e2 => EntryBlock(e1) # EntryBlock(e2)

\* two files hold blocks at the same time
C4_Witness ==
    \E e1 \in UsedEntries, e2 \in UsedEntries : e1[1] # e2[1]

\* C5: every non-zero block entry b of every used on-disk inode satisfies
\* METADATA_BLOCKS <= b < TOTAL_BLOCKS and bitmap bit b is set.
C5_EntriesAllocated ==
    \A e \in UsedEntries :
        /\ METADATA_BLOCKS_COUNT <= EntryBlock(e)
        /\ EntryBlock(e) < MAX_BLOCKS
        /\ disk_bitmap[EntryBlock(e)] = 1

\* a file in slot 1 keeps its blocks after the file in slot 0 was deleted
C5_Witness ==
    /\ disk_inodes[0].used = 0
    /\ \E e \in UsedEntries : e[1] = 1
    /\ \E b \in DataBlockIdx : StaleBlock(b)

\* C6: every used inode has 0 <= size <= MAX_DIRECT_BLOCKS * BLOCK_SIZE,
\* exactly ceil(size / BLOCK_SIZE) leading non-zero block entries and only
\* zero entries after them.
C6_LeadingEntries ==
    \A i \in UsedInodes :
        /\ 0 <= disk_inodes[i].size
        /\ disk_inodes[i].size <= MAX_DIRECT_BLOCKS * BLOCK_SIZE
        /\ \A p \in 1 .. MAX_DIRECT_BLOCKS :
              (disk_inodes[i].blocks[p] # 0) <=> (p <= BlocksFor(disk_inodes[i].size))

\* a created, never-written file next to one of a block and a byte
C6_Witness ==
    \E i \in UsedInodes, j \in UsedInodes :
        /\ disk_inodes[i].size = 0
        /\ disk_inodes[j].size = BLOCK_SIZE + 1

\* C7: the cached free_inodes equals MAX_FILES minus the number of inode
\* slots with used = 1.
C7_FreeInodesCountUnused ==
    current_superblock.free_inodes
        = MAX_FILES - Cardinality({i \in InodeIdx : disk_inodes[i].used = 1})

\* the file in slot 0 has been deleted and the file in slot 1 remains
C7_Witness ==
    /\ disk_inodes[0].used = 0
    /\ disk_inodes[1].used = 1
    /\ current_superblock.free_inodes = MAX_FILES - 1

\* C8: once the image is formatted, bitmap bits 0..METADATA_BLOCKS-1 are
\* set and no used inode holds a block below METADATA_BLOCKS.
C8_MetadataBitsSet ==
    disk_exists =>
        /\ \A b \in 0 .. (METADATA_BLOCKS_COUNT - 1) : disk_bitmap[b] = 1
        /\ \A e \in UsedEntries : EntryBlock(e) >= METADATA_BLOCKS_COUNT

\* blocks have been taken by a file and blocks have been released
C8_Witness ==
    /\ disk_exists
    /\ UsedEntries # {}
    /\ \E b \in DataBlockIdx : StaleBlock(b)

\* C9 as the text has it: free_blocks == TOTAL_BLOCKS - popcount(bitmap
\* among indices >= METADATA_BLOCKS).
C9_AsWritten ==
    current_superblock.free_blocks = MAX_BLOCKS - Cardinality(SetDataBits)

\* C9: free_blocks == (TOTAL_BLOCKS - METADATA_BLOCKS) - popcount(bitmap
\* among indices >= METADATA_BLOCKS).
C9_FreeBlocksPopcount ==
    current_superblock.free_blocks
        = (MAX_BLOCKS - METADATA_BLOCKS_COUNT) - Cardinality(SetDataBits)

\* every data block is allocated
C9_Witness ==
    /\ disk_file_descriptor >= 0
    /\ SetDataBits = DataBlockIdx

\* C10: whenever create(n) returns 0, delete(n) on the resulting state
\* returns 0 and leaves list, read and the free counters as they were before
\* the create.
C10_CreateDeleteRoundTrip ==
    \A n \in Names :
        LET c == fs_create(State, n)
            d == fs_delete(c.st, n)
        IN c.ret = 0 =>
             /\ d.ret = 0
             /\ Observed(d.st) = Observed(State)
             /\ d.st.csb = current_superblock

\* C11: whenever create(n) returns 0, a further create(n), at once or after
\* an unmount and a mount, returns -1 and changes neither the inode table
\* nor free_inodes.
C11_DuplicateCreate ==
    \A n \in Names :
        LET c == fs_create(State, n)
            again == fs_create(c.st, n)
            remounted == fs_mount(fs_unmount(c.st).st).st
            later == fs_create(remounted, n)
        IN c.ret = 0 =>
             /\ again.ret = -1
             /\ again.st.inodes = c.st.inodes
             /\ again.st.csb.free_inodes = c.st.csb.free_inodes
             /\ later.ret = -1
             /\ later.st.inodes = remounted.inodes
             /\ later.st.csb.free_inodes = remounted.csb.free_inodes

\* C12: on a mounted volume with a free slot, create of a new name of
\* MAX_FILENAME-1 characters returns 0, and create of any name longer than
\* MAX_FILENAME-1 characters returns -3 and changes neither the inode table
\* nor free_inodes.
C12_NameLengthBoundary ==
    (disk_file_descriptor >= 0 /\ UsedInodes # InodeIdx) =>
        \A n \in Names :
            LET c == fs_create(State, n)
            IN /\ (strlen(n) = MAX_FILENAME - 1 /\ find_inode_by_name(State, n) < 0)
                    => c.ret = 0
               /\ strlen(n) > MAX_FILENAME - 1
                    => /\ c.ret = -3
                       /\ c.st.inodes = disk_inodes
                       /\ c.st.csb.free_inodes = current_superblock.free_inodes

\* creates LetterName(k), ..., LetterName(last) in turn: the state after the
\* last create and the return values in order
RECURSIVE create_files(_, _, _)
create_files(st, k, last) ==
    IF k > last THEN [st |-> st, rets |-> <<>>]
    ELSE LET c == fs_create(st, LetterName(k))
             rest == create_files(c.st, k + 1, last)
         IN [st |-> rest.st, rets |-> <<c.ret>> \o rest.rets]

\* C13: from an empty volume MAX_FILES creates of distinct names return 0
\* and one more returns -2; a create of a new name returns 0 while a slot is
\* free; while every slot is used it returns -2 and changes nothing, and
\* returns 0 after any successful delete; at most MAX_FILES slots are used.
C13_InodeCapacity ==
    disk_file_descriptor >= 0 =>
        /\ UsedInodes = {} =>
              create_files(State, 1, MAX_FILES + 1).rets
                  = [k \in 1..(MAX_FILES + 1) |-> IF k <= MAX_FILES THEN 0 ELSE -2]
        /\ \A n \in CapacityNames :
              find_inode_by_name(State, n) < 0 =>
                  LET c == fs_create(State, n)
                  IN IF UsedInodes = InodeIdx
                     THEN /\ c.ret = -2
                          /\ c.st = State
                          /\ \A m \in Names :
                                LET d == fs_delete(State, m)
                                IN d.ret = 0 => fs_create(d.st, n).ret = 0
                     ELSE /\ c.ret = 0
                          /\ Cardinality({i \in InodeIdx : c.st.inodes[i].used # 0})
                                = Cardinality(UsedInodes) + 1
        /\ Cardinality(UsedInodes) <= MAX_FILES

\* every slot is used and one of the files has content
C13_Witness ==
    /\ disk_file_descriptor >= 0
    /\ UsedInodes = InodeIdx
    /\ \E i \in UsedInodes : disk_inodes[i].size > 0

\* the non-zero block entries of slot i
HeldBlocks(i) ==
    {disk_inodes[i].blocks[p] : p \in 1 .. MAX_DIRECT_BLOCKS} \ {0}

\* C14: for an existing file whose old blocks plus free_blocks cover
\* MAX_DIRECT_BLOCKS, a write of MAX_DIRECT_BLOCKS * BLOCK_SIZE bytes
\* returns 0 and a read returns all of them; a write of one byte more to an
\* existing file returns -2 and leaves the whole state as it was.
C14_MaxFileSize ==
    \A n \in Names :
        LET inode_index == find_inode_by_name(State, n)
            w == fs_write(State, n, Payload(1, MaxFileSize), MaxFileSize)
            over == fs_write(State, n, Payload(1, MaxFileSize + 1), MaxFileSize + 1)
        IN inode_index >= 0 =>
             /\ MAX_DIRECT_BLOCKS <= current_superblock.free_blocks
                                       + BlocksFor(disk_inodes[inode_index].size)
                  => /\ w.ret = 0
                     /\ \A s \in {MaxFileSize, MaxFileSize + 1} :
                           fs_read(w.st, n, Buffer, s)
                               = [ret |-> MaxFileSize, out |-> Payload(1, MaxFileSize)]
             /\ over.ret = -2
             /\ over.st = State

\* a file of the maximum size holds MAX_DIRECT_BLOCKS blocks
C14_Witness ==
    /\ disk_file_descriptor >= 0
    /\ \E i \in UsedInodes :
          /\ disk_inodes[i].size = MaxFileSize
          /\ Cardinality(HeldBlocks(i)) = MAX_DIRECT_BLOCKS

\* C15: a write to an existing file that needs more blocks than free_blocks
\* plus the file's own block count returns -2 and leaves the whole state as
\* it was; with no clear data bit a write of one byte to an empty file
\* returns -2, and returns 0 after a delete of another file released a block.
C15_NoSpaceOnWrite ==
    \A n \in Names :
        LET inode_index == find_inode_by_name(State, n)
        IN inode_index >= 0 =>
             /\ \A D \in Payloads :
                   LET w == fs_write(State, n, D, Len(D))
                   IN BlocksFor(Len(D)) > current_superblock.free_blocks
                                            + BlocksFor(disk_inodes[inode_index].size)
                        => (w.ret = -2 /\ w.st = State)
             /\ (disk_inodes[inode_index].size = 0 /\ ClearDataBits = {})
                  => /\ fs_write(State, n, Payload(1, 1), 1) = [st |-> State, ret |-> -2]
                     /\ \A m \in Names :
                           LET d == fs_delete(State, m)
                           IN (/\ d.ret = 0
                               /\ d.st.csb.free_blocks > current_superblock.free_blocks
                               /\ find_inode_by_name(d.st, n) >= 0)
                                => fs_write(d.st, n, Payload(1, 1), 1).ret = 0

\* an empty file on a volume whose data blocks are all held by another file
C15_Witness ==
    /\ disk_file_descriptor >= 0
    /\ ClearDataBits = {}
    /\ \E i \in UsedInodes, j \in UsedInodes :
          /\ disk_inodes[i].size = 0
          /\ HeldBlocks(j) # {}

\* C16: delete(n) of an existing file returns 0; afterwards list does not
\* hold n, read(n) returns -1, every block n held is clear in the bitmap,
\* free_blocks has grown by n's block count and free_inodes by 1, and a
\* write that needs a block more than was free before the delete gets one
\* of them.
C16_DeletePostcondition ==
    \A n \in Names :
        LET inode_index == find_inode_by_name(State, n)
            d == fs_delete(State, n)
            listed == ListAll(d.st).out
        IN inode_index >= 0 =>
             /\ d.ret = 0
             /\ \A k \in 1 .. Len(listed) : listed[k] # n
             /\ \A s \in ReadSizes : fs_read(d.st, n, Buffer, s).ret = -1
             /\ \A b \in HeldBlocks(inode_index) : d.st.bitmap[b] = 0
             /\ d.st.csb.free_blocks
                  = current_superblock.free_blocks + Cardinality(HeldBlocks(inode_index))
             /\ d.st.csb.free_inodes = current_superblock.free_inodes + 1
             /\ \A m \in Names :
                   LET w == fs_write(d.st, m, Payload(1, 1), 1)
                       j == find_inode_by_name(d.st, m)
                   IN (/\ j >= 0
                       /\ d.st.inodes[j].size = 0
                       /\ ClearDataBits = {}
                       /\ HeldBlocks(inode_index) # {})
                        => /\ w.ret = 0
                           /\ w.st.inodes[j].blocks[1] \in HeldBlocks(inode_index)

\* C17: a read of s > 0 bytes from an existing file of size z returns
\* min(s, z) and the first min(s, z) bytes of what the last successful write
\* stored, never a byte beyond z.
C17_PartialRead ==
    /\ \A n \in Names, D \in Payloads :
          LET w == fs_write(State, n, D, Len(D))
          IN w.ret = 0 =>
               \A s \in ReadSizes :
                   fs_read(w.st, n, Buffer, s)
                       = [ret |-> Min(s, Len(D)), out |-> SubSeq(D, 1, Min(s, Len(D)))]
    /\ \A n \in Names :
          LET inode_index == find_inode_by_name(State, n)
              z == disk_inodes[inode_index].size
              whole == fs_read(State, n, Buffer, MaxFileSize + 1)
          IN inode_index >= 0 =>
               /\ whole.ret = z
               /\ Len(whole.out) = z
               /\ \A s \in ReadSizes :
                     fs_read(State, n, Buffer, s)
                         = [ret |-> Min(s, z), out |-> SubSeq(whole.out, 1, Min(s, z))]

\* a file of a block and a byte, read with a buffer of one byte
C17_Witness ==
    /\ disk_file_descriptor >= 0
    /\ \E i \in UsedInodes :
          /\ disk_inodes[i].size = BLOCK_SIZE + 1
          /\ fs_read(State, disk_inodes[i].name, Buffer, 1).ret = 1

\* the smallest data block whose bit is clear in st, or -1
LowestClear(st) ==
    LET clear == {b \in DataBlockIdx : st.bitmap[b] = 0}
    IN IF clear = {} THEN -1 ELSE CHOOSE b \in clear : \A c \in clear : b <= c

\* C18: on a mounted volume find_free_block returns the smallest data block
\* whose bit is clear, or -1 when none is; after marking it used the result
\* is the next clear block, after freeing it again it is the same block; and
\* the p-th block a successful write assigns is the p-th smallest of the
\* blocks that were clear or held by the file.
C18_LowestIndexFirst ==
    disk_file_descriptor >= 0 =>
        LET b == find_free_block(State)
            used == mark_block_as_used(State, b)
        IN /\ b = LowestClear(State)
           /\ b >= 0 =>
                /\ find_free_block(used) = LowestClear(used)
                /\ find_free_block(used) = -1 \/ find_free_block(used) > b
                /\ find_free_block(mark_block_as_free(used, b)) = b
           /\ \A n \in Names, D \in Payloads :
                 LET inode_index == find_inode_by_name(State, n)
                     w == fs_write(State, n, D, Len(D))
                     available == ClearDataBits \cup HeldBlocks(inode_index)
                 IN w.ret = 0 =>
                      \A p \in 1 .. BlocksFor(Len(D)) :
                          LET taken == w.st.inodes[inode_index].blocks[p]
                          IN /\ taken \in available
                             /\ Cardinality({c \in available : c < taken}) = p - 1

\* a clear block lies below a block a file holds
C18_Witness ==
    /\ disk_file_descriptor >= 0
    /\ \E b \in ClearDataBits, c \in SetDataBits : b < c

\* the k-th used slot in ascending slot order
KthUsed(k) ==
    CHOOSE i \in UsedInodes : Cardinality({j \in UsedInodes : j < i}) = k - 1

\* C19: on a mounted volume list(out, max) returns min(max, number of used
\* slots), 0 when max <= 0, and out holds the stored names of the first that
\* many used slots in ascending slot order; the result for a smaller max is
\* a prefix of the result for a larger one.
C19_ListOrder ==
    disk_file_descriptor >= 0 =>
        \A max_files \in -1 .. (MAX_FILES + 1) :
            LET l == fs_list(State, max_files)
                count == IF max_files <= 0 THEN 0
                         ELSE Min(max_files, Cardinality(UsedInodes))
            IN /\ l.ret = count
               /\ Len(l.out) = count
               /\ \A k \in 1 .. count : l.out[k] = disk_inodes[KthUsed(k)].name
               /\ \A larger \in max_files .. (MAX_FILES + 1) :
                     l.out = SubSeq(fs_list(State, larger).out, 1, count)

\* the first slot is free and a later one holds a file
C19_Witness ==
    /\ disk_file_descriptor >= 0
    /\ disk_inodes[0].used = 0
    /\ UsedInodes # {}
    /\ fs_list(State, MAX_FILES).ret = Cardinality(UsedInodes)

\* C20: while nothing is mounted create returns -3, write -3, read -1,
\* delete -2 and list -1, whatever the arguments, and the state stays as it
\* was.
C20_UnmountedErrors ==
    disk_file_descriptor < 0 =>
        /\ \A n \in Names \cup {<<>>, NULL} :
              /\ fs_create(State, n) = [st |-> State, ret |-> -3]
              /\ fs_delete(State, n) = [st |-> State, ret |-> -2]
              /\ \A buffer \in {Buffer, NULL}, s \in ReadSizes \cup {0, -1} :
                    fs_read(State, n, buffer, s).ret = -1
              /\ \A D \in Payloads \cup {<<>>, NULL} :
                    fs_write(State, n, D, Len(D)) = [st |-> State, ret |-> -3]
        /\ \A max_files \in -1 .. MAX_FILES : fs_list(State, max_files).ret = -1

\* unmounted, with files left on the image
C20_Witness ==
    /\ disk_file_descriptor < 0
    /\ disk_exists
    /\ UsedInodes # {}

\* names no operation accepts: the null pointer, the empty string and a
\* string of more than MAX_FILENAME characters
InvalidNames == {NULL, <<>>, NameOfLen(MAX_FILENAME + 1)}

\* C21: on a mounted volume create, write and read answer a NULL, empty or
\* longer-than-MAX_FILENAME name with -3 and delete answers it with -2;
\* write with NULL data or size <= 0 and read with a NULL buffer or
\* size <= 0 return -3, also for an existing file; the state stays as it was.
C21_InvalidArguments ==
    disk_file_descriptor >= 0 =>
        /\ \A n \in InvalidNames :
              /\ fs_create(State, n) = [st |-> State, ret |-> -3]
              /\ fs_delete(State, n) = [st |-> State, ret |-> -2]
              /\ \A D \in Payloads \cup {NULL} :
                    fs_write(State, n, D, Len(D)) = [st |-> State, ret |-> -3]
              /\ \A buffer \in {Buffer, NULL}, s \in ReadSizes \cup {0, -1} :
                    fs_read(State, n, buffer, s) = [ret |-> -3, out |-> <<>>]
        /\ \A n \in Names :
              /\ fs_write(State, n, NULL, 1) = [st |-> State, ret |-> -3]
              /\ \A D \in Payloads, s \in {0, -1} :
                    fs_write(State, n, D, s) = [st |-> State, ret |-> -3]
              /\ \A s \in ReadSizes :
                    fs_read(State, n, NULL, s) = [ret |-> -3, out |-> <<>>]
              /\ \A s \in {0, -1} :
                    fs_read(State, n, Buffer, s) = [ret |-> -3, out |-> <<>>]

\* a file with content exists, and a read of it with size 0 is turned away
C21_Witness ==
    /\ disk_file_descriptor >= 0
    /\ \E i \in UsedInodes :
          /\ disk_inodes[i].size > 0
          /\ fs_read(State, disk_inodes[i].name, Buffer, 0).ret = -3

\* no used slot stores exactly the bytes of n
InNoUsedSlot(n) == \A i \in UsedInodes : disk_inodes[i].name # n

\* C22: on a mounted volume write (size within the maximum), read and delete
\* of a name of 1..MAX_FILENAME characters that no used slot stores return -1
\* and leave the state as it was; so do they after create(n) and delete(n).
C22_NotFound ==
    disk_file_descriptor >= 0 =>
        \A n \in Names \ InvalidNames :
            /\ InNoUsedSlot(n) =>
                  /\ \A D \in {P \in Payloads : Len(P) <= MaxFileSize} :
                        fs_write(State, n, D, Len(D)) = [st |-> State, ret |-> -1]
                  /\ \A s \in ReadSizes :
                        fs_read(State, n, Buffer, s) = [ret |-> -1, out |-> <<>>]
                  /\ fs_delete(State, n) = [st |-> State, ret |-> -1]
            /\ LET c == fs_create(State, n)
                   d == fs_delete(c.st, n)
               IN (c.ret = 0 /\ d.ret = 0) =>
                    /\ fs_write(d.st, n, Payload(1, 1), 1) = [st |-> d.st, ret |-> -1]
                    /\ \A s \in ReadSizes : fs_read(d.st, n, Buffer, s).ret = -1
                    /\ fs_delete(d.st, n) = [st |-> d.st, ret |-> -1]

\* one file is left, with content, after another was deleted
C22_Witness ==
    /\ disk_file_descriptor >= 0
    /\ Cardinality(UsedInodes) = 1
    /\ \E i \in UsedInodes : disk_inodes[i].size > 0
    /\ \E n \in Names \ InvalidNames : InNoUsedSlot(n)
    /\ \E b \in DataBlockIdx : StaleBlock(b)

\* C23: mount on a mounted volume returns -1 and leaves the descriptor, the
\* cached superblock and the image as they were.
C23_DoubleMount ==
    disk_file_descriptor >= 0 =>
        fs_mount(State) = [st |-> State, ret |-> -1]

\* mounted, with cached counters that differ from block 0
C23_Witness ==
    /\ disk_file_descriptor >= 0
    /\ current_superblock # disk_superblock
    /\ UsedInodes # {}

\* block 0 of a file that is not an image of this file system: one field of
\* a valid superblock is off, or the block is all zero
BadSuperblocks ==
    {[FormatSuperblock EXCEPT !.total_blocks = @ + 1],
     [FormatSuperblock EXCEPT !.block_size = @ + 1],
     [FormatSuperblock EXCEPT !.total_inodes = @ - 1],
     ZeroSuperblock}

\* C24: mount of a path that does not exist, or of an image whose
\* total_blocks, block_size or total_inodes is not MAX_BLOCKS, BLOCK_SIZE,
\* MAX_FILES, returns -1 and leaves the descriptor at -1, and a mount of a
\* valid image afterwards returns 0.
C24_MountValidation ==
    disk_file_descriptor < 0 =>
        /\ ~disk_exists =>
              LET m == fs_mount(State)
              IN /\ m.ret = -1
                 /\ m.st.fd < 0
                 /\ fs_mount(fs_format(m.st).st).ret = 0
        /\ disk_exists =>
              \A bad \in BadSuperblocks :
                  LET m == fs_mount([State EXCEPT !.dsb = bad])
                  IN /\ m.ret = -1
                     /\ m.st.fd < 0
                     /\ m.st.inodes = disk_inodes
                     /\ m.st.bitmap = disk_bitmap
                     /\ m.st.data = disk_data
                     /\ fs_mount([m.st EXCEPT !.dsb = disk_superblock]).ret = 0

\* unmounted, on an image that an unmount left with fewer free inodes
C24_Witness ==
    /\ disk_file_descriptor < 0
    /\ disk_exists
    /\ disk_superblock.free_inodes < MAX_FILES
    /\ fs_mount(State).ret = 0

\* C25: unmount while nothing is mounted changes nothing; unmount on a
\* mounted volume writes the cached superblock to block 0, touches nothing
\* else and leaves the descriptor at -1; the next mount returns 0 with the
\* same cached superblock, and so does a second unmount and mount.
C25_Unmount ==
    LET u == fs_unmount(State)
        m == fs_mount(u.st)
        m2 == fs_mount(fs_unmount(m.st).st)
    IN /\ disk_file_descriptor < 0 => u.st = State
       /\ disk_file_descriptor >= 0 =>
             /\ u.st = [State EXCEPT !.fd = -1, !.dsb = current_superblock]
             /\ m.ret = 0
             /\ m.st.csb.free_blocks = current_superblock.free_blocks
             /\ m.st.csb.free_inodes = current_superblock.free_inodes
             /\ m2.ret = 0
             /\ m2.st = m.st

\* mounted, and blocks have been taken since block 0 was last written
C25_Witness ==
    /\ disk_file_descriptor >= 0
    /\ current_superblock.free_blocks < disk_superblock.free_blocks
    /\ current_superblock.free_inodes < disk_superblock.free_inodes

\* C26: after format returns 0 the image exists with MAX_BLOCKS blocks,
\* block 0 holds free_blocks = MAX_BLOCKS - METADATA_BLOCKS_COUNT and
\* free_inodes = MAX_FILES, bitmap bits below METADATA_BLOCKS_COUNT are set
\* and the others clear, every inode slot is unused and every data block is
\* zero, whatever the image held before; list then returns 0.
C26_FormatPostcondition ==
    LET f == fs_format(State)
    IN f.ret = 0 =>
         /\ f.st.exists
         /\ DOMAIN f.st.bitmap = 0 .. (MAX_BLOCKS - 1)
         /\ f.st.dsb = [total_blocks |-> MAX_BLOCKS, block_size |-> BLOCK_SIZE,
                        free_blocks |-> MAX_BLOCKS - METADATA_BLOCKS_COUNT,
                        total_inodes |-> MAX_FILES, free_inodes |-> MAX_FILES]
         /\ \A b \in 0 .. (MAX_BLOCKS - 1) :
               f.st.bitmap[b] = IF b < METADATA_BLOCKS_COUNT THEN 1 ELSE 0
         /\ \A i \in InodeIdx : f.st.inodes[i].used = 0
         /\ \A b \in DataBlockIdx : f.st.data[b] = ZeroBlock
         /\ disk_file_descriptor < 0 =>
               LET m == fs_mount(f.st)
               IN m.ret = 0 /\ fs_list(m.st, MAX_FILES) = [ret |-> 0, out |-> <<>>]
         /\ disk_file_descriptor >= 0 =>
               fs_list(f.st, MAX_FILES) = [ret |-> 0, out |-> <<>>]

\* a mounted image that held files has just been formatted: the table is
\* empty while the cached counter still counts the files
C26_Witness ==
    /\ disk_file_descriptor >= 0
    /\ UsedInodes = {}
    /\ SetDataBits = {}
    /\ disk_superblock = FormatSuperblock
    /\ current_superblock.free_inodes < MAX_FILES

\* n with its first letter in upper case
UpperFirst(n) == [n EXCEPT ![1] = @ - 32]

IsProperPrefix(a, b) == Len(a) < Len(b) /\ SubSeq(b, 1, Len(a)) = a

\* the names of 1..MAX_FILENAME characters 'a','b',... and their variants
\* with an upper-case first letter: create accepts each of them
PrefixNames ==
    {NameOfLen(k) : k \in 1 .. MAX_FILENAME}
        \cup {UpperFirst(NameOfLen(k)) : k \in 1 .. MAX_FILENAME}

\* C27: find_inode_by_name returns the lowest used slot whose stored name
\* equals the query byte for byte, and -1 when there is none; two names
\* that differ in case, or of which one is a proper prefix of the other,
\* can both be created, are found in different slots, and after a delete of
\* the first the first is not found and the second is found where it was.
C27_ExactNameMatching ==
    disk_file_descriptor >= 0 =>
        /\ \A q \in Names \cup PrefixNames :
              LET matches == {i \in UsedInodes : disk_inodes[i].name = q}
                  found == find_inode_by_name(State, q)
              IN IF matches = {} THEN found = -1
                 ELSE found \in matches /\ \A j \in matches : found <= j
        /\ \A n1 \in PrefixNames, n2 \in PrefixNames :
              LET c1 == fs_create(State, n1)
                  c2 == fs_create(c1.st, n2)
                  d == fs_delete(c2.st, n1)
              IN (/\ n2 = UpperFirst(n1) \/ IsProperPrefix(n1, n2) \/ IsProperPrefix(n2, n1)
                  /\ c1.ret = 0
                  /\ c2.ret = 0)
                   => /\ find_inode_by_name(c2.st, n1) >= 0
                      /\ find_inode_by_name(c2.st, n2) >= 0
                      /\ find_inode_by_name(c2.st, n1) # find_inode_by_name(c2.st, n2)
                      /\ d.ret = 0
                      /\ find_inode_by_name(d.st, n1) = -1
                      /\ find_inode_by_name(d.st, n2) = find_inode_by_name(c2.st, n2)

\* ---------------------------------------------------------------------
\* A process that ends without fs_unmount
\* ---------------------------------------------------------------------
\* the write of data under filename gets past the argument checks, the
\* lookup and the space check, and then runs out of blocks while allocating
AllocationFails(st, filename, data) ==
    LET inode_index == find_inode_by_name(st, filename)
    IN /\ validate_write_operation_parameters(st, filename, data, Len(data)) = 0
       /\ inode_index >= 0
       /\ check_available_space_for_write_operation(
              st, BlocksFor(Len(data)), read_inode_from_disk(st, inode_index).size) = 0
       /\ fs_write(st, filename, data, Len(data)).ret = -2

\* every non-zero entry of a used inode of st names a block whose bit is set
ReferencesAllocated(st) ==
    \A i \in InodeIdx, k \in 1..MAX_DIRECT_BLOCKS :
        (st.inodes[i].used # 0 /\ st.inodes[i].blocks[k] \in DataBlockIdx)
            => st.bitmap[st.inodes[i].blocks[k]] # 0

\* C28: when a write passes the space check and then finds no free block
\* midway, it returns -2 and afterwards the file's inode in the table holds
\* zeroed block pointers instead of its old blocks, so that no used inode
\* references a block whose bitmap bit is clear.
C28_FailedAllocation ==
    \A filename \in Names, data \in Payloads :
        (ReferencesAllocated(State) /\ AllocationFails(State, filename, data)) =>
            LET inode_index == find_inode_by_name(State, filename)
                w == fs_write(State, filename, data, Len(data))
            IN /\ w.ret = -2
               /\ \A k \in 1..MAX_DIRECT_BLOCKS : w.st.inodes[inode_index].blocks[k] = 0
               /\ ReferencesAllocated(w.st)

\* C29: when the process ends without fs_unmount after completed create,
\* write and delete operations, the next mount of the image has free_blocks
\* equal to the number of clear data-block bits and free_inodes equal to
\* the number of unused inode slots.
C29_AccountingSurvivesCrash ==
    disk_file_descriptor >= 0 =>
        LET m == fs_mount(process_restart(State))
        IN /\ m.ret = 0
           /\ m.st.csb.free_blocks =
                  Cardinality({b \in DataBlockIdx : m.st.bitmap[b] = 0})
           /\ m.st.csb.free_inodes =
                  Cardinality({i \in InodeIdx : m.st.inodes[i].used = 0})

\* C30: when the process ends without fs_unmount between two operations, a
\* following mount succeeds and list and read give the same results as
\* immediately before the end (names, order, lengths, bytes; absent files
\* stay absent).
C30_CrashPersistence ==
    disk_file_descriptor >= 0 =>
        LET m == fs_mount(process_restart(State))
        IN m.ret = 0 /\ Observed(m.st) = Observed(State)

\* the process would end with counters that block 0 does not have, on an
\* image with two files, one of them with content, and a released block
C30_Witness ==
    /\ disk_file_descriptor >= 0
    /\ current_superblock # disk_superblock
    /\ Cardinality(UsedInodes) >= 2
    /\ \E i \in UsedInodes :
          /\ disk_inodes[i].size > 0
          /\ fs_read(fs_mount(process_restart(State)).st, disk_inodes[i].name,
                     Buffer, MaxFileSize).ret = disk_inodes[i].size
    /\ \E b \in DataBlockIdx : StaleBlock(b)

\* ---------------------------------------------------------------------
\* Allocation under accurate counters, names, isolation
\* ---------------------------------------------------------------------
\* the write of data under filename gets past the argument checks, the
\* lookup and the space check
PassesSpaceCheck(st, filename, data) ==
    LET inode_index == find_inode_by_name(st, filename)
    IN /\ validate_write_operation_parameters(st, filename, data, Len(data)) = 0
       /\ inode_index >= 0
       /\ check_available_space_for_write_operation(
              st, BlocksFor(Len(data)), read_inode_from_disk(st, inode_index).size) = 0

\* C31: in every state where the cached free_blocks equals the number of
\* clear data-block bits, a write that passes the space check gets a block
\* for each of its allocations and returns 0; every -2 of a write then
\* comes from the size or the space check and leaves the state unchanged.
C31_NoRollbackWhenAccurate ==
    (disk_file_descriptor >= 0
       /\ current_superblock.free_blocks = Cardinality(ClearDataBits)) =>
        \A filename \in Names, data \in Payloads :
            LET w == fs_write(State, filename, data, Len(data))
            IN /\ PassesSpaceCheck(State, filename, data) => w.ret = 0
               /\ w.ret = -2 => w.st = State

\* C32: in every state reachable from a freshly formatted image no two used
\* inode slots hold the same stored name, so list never returns one name
\* twice.
C32_UniqueNames ==
    /\ \A i \in UsedInodes, j \in UsedInodes :
          i # j => disk_inodes[i].name # disk_inodes[j].name
    /\ disk_file_descriptor >= 0 =>
          \A p \in 1..ListAll(State).ret, q \in 1..ListAll(State).ret :
              p # q => ListAll(State).out[p] # ListAll(State).out[q]

\* C33: on a mounted volume with a free inode slot, create with a name of
\* exactly MAX_FILENAME characters returns 0 and takes one inode slot: one
\* more slot is used, the others are as before, free_inodes is one less.
C33_CreateMaxLengthName ==
    (disk_file_descriptor >= 0 /\ \E i \in InodeIdx : disk_inodes[i].used = 0) =>
        LET c == fs_create(State, NameOfLen(MAX_FILENAME))
            taken == {i \in InodeIdx : c.st.inodes[i] # disk_inodes[i]}
        IN /\ c.ret = 0
           /\ Cardinality(taken) = 1
           /\ \A i \in taken : disk_inodes[i].used = 0 /\ c.st.inodes[i].used # 0
           /\ c.st.csb.free_inodes = current_superblock.free_inodes - 1

\* a free slot next to a slot that an earlier create with the name of
\* MAX_FILENAME characters has filled
C33_Witness ==
    /\ disk_file_descriptor >= 0
    /\ \E i \in InodeIdx : disk_inodes[i].used = 0
    /\ \E i \in UsedInodes :
          disk_inodes[i].name = strncpy(NameOfLen(MAX_FILENAME), MAX_FILENAME - 1)
    /\ fs_create(State, NameOfLen(MAX_FILENAME)).ret = 0

\* what the volume holds under the name m: the size and block list of the
\* inode the lookup finds, and what read returns for every size
FileView(st, m) ==
    LET inode_index == find_inode_by_name(st, m)
    IN [found  |-> inode_index >= 0,
        size   |-> IF inode_index >= 0 THEN st.inodes[inode_index].size ELSE 0,
        blocks |-> IF inode_index >= 0 THEN st.inodes[inode_index].blocks
                   ELSE [k \in 1..MAX_DIRECT_BLOCKS |-> 0],
        read   |-> [s \in ReadSizes |-> fs_read(st, m, Buffer, s)]]

\* the outcomes of one create, write or delete on the name n
OperationsOn(st, n) ==
    {fs_create(st, n), fs_delete(st, n)}
        \cup {fs_write(st, n, data, Len(data)) : data \in Payloads}

\* C34: a successful create, write or delete on the name n leaves, for every
\* other existing file m, its size, its block list and the bytes read(m)
\* returns unchanged.
C34_Isolation ==
    disk_file_descriptor >= 0 =>
        \A n \in Names, i \in UsedInodes :
            LET m == disk_inodes[i].name
            IN m # n =>
                 \A r \in OperationsOn(State, n) :
                     r.ret = 0 => FileView(r.st, m) = FileView(State, m)

\* C35: when free_blocks is 0, a write to an existing file whose new block
\* count is at most the file's current block count returns 0 (the file's own
\* blocks count as available), and afterwards free_blocks is the old block
\* count minus the new one.
C35_OverwriteOnFullVolume ==
    (disk_file_descriptor >= 0 /\ current_superblock.free_blocks = 0) =>
        \A n \in Names, data \in Payloads :
            LET inode_index == find_inode_by_name(State, n)
                old_blocks_count == BlocksFor(disk_inodes[inode_index].size)
                w == fs_write(State, n, data, Len(data))
            IN (inode_index >= 0 /\ BlocksFor(Len(data)) <= old_blocks_count) =>
                 /\ w.ret = 0
                 /\ w.st.csb.free_blocks = old_blocks_count - BlocksFor(Len(data))

\* no free block, a file that holds MAX_DIRECT_BLOCKS blocks, and a write of
\* one block to it that leaves the other blocks free
C35_Witness ==
    /\ disk_file_descriptor >= 0
    /\ current_superblock.free_blocks = 0
    /\ ClearDataBits = {}
    /\ \E i \in UsedInodes :
          /\ Cardinality(HeldBlocks(i)) = MAX_DIRECT_BLOCKS
          /\ LET w == fs_write(State, disk_inodes[i].name, Payload(1, 1), 1)
             IN w.ret = 0 /\ w.st.csb.free_blocks = MAX_DIRECT_BLOCKS - 1

C37_DeferredSuperblock ==
    [][/\ (disk_file_descriptor >= 0 /\ disk_file_descriptor' >= 0)
            => disk_superblock' = disk_superblock
       /\ (disk_file_descriptor < 0 /\ disk_file_descriptor' >= 0)
            => (disk_superblock' = disk_superblock
                  /\ current_superblock' = disk_superblock)
       /\ (disk_file_descriptor >= 0 /\ disk_file_descriptor' < 0)
            => (current_superblock' = current_superblock
                  /\ disk_superblock' = current_superblock)]_vars

\* mounted, with both cached counters away from the ones in block 0, and in
\* block 0 counters that an earlier unmount wrote
C37_Witness ==
    /\ disk_file_descriptor >= 0
    /\ current_superblock.free_blocks # disk_superblock.free_blocks
    /\ current_superblock.free_inodes # disk_superblock.free_inodes
    /\ disk_superblock # FormatSuperblock
    /\ fs_unmount(State).st.dsb = current_superblock

\* C38: format neither checks nor changes disk_file_descriptor and the
\* cached superblock; on the mounted image it returns 0 and resets the
\* bitmap and the inode table of the image while the cached free_blocks and
\* free_inodes keep their values, and the next unmount writes those values
\* to block 0.
C38_FormatIgnoresMount ==
    LET f == fs_format(State)
        u == fs_unmount(f.st).st
    IN /\ f.ret = 0
       /\ f.st.fd = disk_file_descriptor
       /\ f.st.csb = current_superblock
       /\ disk_file_descriptor >= 0 =>
             /\ f.st.bitmap = FormatBitmap
             /\ \A i \in InodeIdx : f.st.inodes[i] = ZeroInode
             /\ u.dsb.free_blocks = current_superblock.free_blocks
             /\ u.dsb.free_inodes = current_superblock.free_inodes

\* unmounted after a format of the mounted image: the table and the bitmap
\* are those of a fresh image, block 0 counts files and blocks that are gone
C38_Witness ==
    /\ disk_file_descriptor < 0
    /\ disk_exists
    /\ UsedInodes = {}
    /\ SetDataBits = {}
    /\ disk_superblock.free_inodes < MAX_FILES
    /\ disk_superblock.free_blocks < MAX_BLOCKS - METADATA_BLOCKS_COUNT

\* ---------------------------------------------------------------------
\* Order of the checks of a write, reuse of inode slots
\* ---------------------------------------------------------------------
\* the arguments callers pass to write: names and buffers, valid and not,
\* with the sizes that go with them
WriteArguments ==
    {<<n, data, Len(data)>> : n \in Names \cup InvalidNames, data \in Payloads}
        \cup {<<n, data, 0>> : n \in Names, data \in Payloads}
        \cup {<<n, NULL, size>> : n \in Names \cup InvalidNames, size \in WriteSizes}

\* C39: a write reports an unmounted volume or invalid arguments first (-3),
\* then a size above MAX_DIRECT_BLOCKS * BLOCK_SIZE (-2), then a name that
\* is in no used slot (-1), then a failed space check (-2), and changes
\* nothing in these cases; a write of more than the maximum size to a name
\* that does not exist returns -2.
C39_WriteCheckOrder ==
    \A a \in WriteArguments :
        LET n == a[1]
            data == a[2]
            size == a[3]
            w == fs_write(State, n, data, size)
            invalid == \/ disk_file_descriptor < 0
                       \/ n = NULL \/ data = NULL \/ size <= 0
                       \/ Len(n) = 0 \/ Len(n) > MAX_FILENAME
            tooLarge == size > MAX_DIRECT_BLOCKS * BLOCK_SIZE
            absent == InNoUsedSlot(n)
            noSpace == \E i \in UsedInodes :
                          /\ disk_inodes[i].name = n
                          /\ \A j \in UsedInodes : disk_inodes[j].name = n => i <= j
                          /\ BlocksFor(size) > current_superblock.free_blocks
                                                 + BlocksFor(disk_inodes[i].size)
        IN /\ invalid => w = [st |-> State, ret |-> -3]
           /\ (~invalid /\ tooLarge) => w = [st |-> State, ret |-> -2]
           /\ (~invalid /\ ~tooLarge /\ absent) => w = [st |-> State, ret |-> -1]
           /\ (~invalid /\ ~tooLarge /\ ~absent /\ noSpace)
                 => w = [st |-> State, ret |-> -2]

\* mounted with no free block and an empty file, so that a write can fail
\* each check: an over-long name with too many bytes, too many bytes for a
\* name that does not exist, a name that does not exist, no space
C39_Witness ==
    /\ disk_file_descriptor >= 0
    /\ current_superblock.free_blocks = 0
    /\ \E i \in UsedInodes : disk_inodes[i].size = 0
    /\ \E n \in Names :
          /\ Len(n) < MAX_FILENAME
          /\ InNoUsedSlot(n)
          /\ fs_write(State, n, Payload(1, MaxFileSize + 1), MaxFileSize + 1).ret = -2
          /\ fs_write(State, n, Payload(1, 1), 1).ret = -1
    /\ fs_write(State, NameOfLen(MAX_FILENAME + 1), Payload(1, MaxFileSize + 1),
                MaxFileSize + 1).ret = -3

\* the unused slots of st
FreeSlots(st) == {i \in InodeIdx : st.inodes[i].used = 0}

\* a successful create of n from st filled the smallest unused slot of st,
\* left the other slots alone, and list shows the new name at the position
\* of that slot among the used ones
TakesLowestSlot(st, n) ==
    LET c == fs_create(st, n)
        slot == CHOOSE i \in FreeSlots(st) : \A j \in FreeSlots(st) : i <= j
        position == Cardinality({j \in InodeIdx \ FreeSlots(st) : j < slot}) + 1
    IN c.ret = 0 =>
         /\ FreeSlots(st) # {}
         /\ c.st.inodes[slot].used # 0
         /\ c.st.inodes[slot].name = strncpy(n, MAX_FILENAME - 1)
         /\ \A j \in InodeIdx \ {slot} : c.st.inodes[j] = st.inodes[j]
         /\ ListAll(c.st).out[position] = c.st.inodes[slot].name
         /\ ListAll(c.st).ret = Cardinality(InodeIdx \ FreeSlots(st)) + 1

\* C40: create stores the new file in the smallest-index free inode slot;
\* after a delete the next created file takes the lowest freed slot and
\* list shows it at that position, ahead of older files in higher slots.
C40_SlotReuse ==
    disk_file_descriptor >= 0 =>
        \A n \in Names :
            /\ TakesLowestSlot(State, n)
            /\ \A m \in Names :
                  LET freed == find_inode_by_name(State, m)
                      d == fs_delete(State, m)
                      c == fs_create(d.st, n)
                  IN (d.ret = 0 /\ c.ret = 0) =>
                       /\ TakesLowestSlot(d.st, n)
                       /\ \E slot \in 0 .. freed :
                             /\ d.st.inodes[slot].used = 0
                             /\ c.st.inodes[slot].used # 0

\* a file in the second slot and a freed first slot: the next create fills
\* the first slot and list shows the new name ahead of the older file
C40_Witness ==
    /\ disk_file_descriptor >= 0
    /\ disk_inodes[0].used = 0
    /\ disk_inodes[1].used # 0
    /\ \E n \in Names :
          LET c == fs_create(State, n)
          IN /\ c.ret = 0
             /\ ListAll(c.st).out[1] = strncpy(n, MAX_FILENAME - 1)
             /\ ListAll(c.st).out[2] = disk_inodes[1].name
             /\ ListAll(c.st).out[1] # ListAll(c.st).out[2]

====
